---- MODULE Spec2Model ----
(***************************************************************************)
(* A model of src/logs.rs: the rotating log file sink (LogFile), the size  *)
(* rotation policy (SizeRotatePolicy) and the timed rotation policy        *)
(* (TimedRotatePolicy), over a small model of one directory of a file      *)
(* system.                                                                 *)
(*                                                                         *)
(* A file name is a sequence of ASCII codes, so that format!, parse and    *)
(* the ordering used by sort are computed, not assumed.  An instant is a   *)
(* number of ticks since the epoch, TicksPerSec ticks to the second.       *)
(***************************************************************************)
EXTENDS Integers, Sequences, FiniteSets, TLC

VARIABLES
    log_file,   \* LogFile.log_file: the target path
    inner,      \* LogFile.inner: 0 for None, else the inode the handle refers to
    policy,     \* LogFile.policy: the boxed policy's fields, or NoPolicy
    disk,       \* the directory: a function from each existing name to its inode
    data,       \* the content of every inode created so far (a sequence of bytes)
    clock,      \* the system clock, in ticks
    tz,         \* the offset of the local time zone from UTC, in seconds
    cfg,        \* the arguments the policy was (or is to be) constructed from
    ret,        \* what the last call did and returned
    calls,      \* the number of write calls made so far
    rotLog,     \* history: one entry per rotation of the target, oldest first
    lastCheck,  \* history: when the last evaluate call that compared the clock with
                \* rollover_at was made, -1 before the first
    breached,   \* history: some write found current length + pending >= max_file_size
    removed,    \* history: the number of files another process has removed
    advances,   \* history: the number of times the clock was moved forward
    status      \* "running", "hung" (a call never returns) or "panicked"

vars == <<log_file, inner, policy, disk, data, clock, tz, cfg, ret, calls,
          rotLog, lastCheck, breached, removed, advances, status>>

-----------------------------------------------------------------------------
(* Bounds of the model. *)

\* The number of write calls of a run.
MaxCalls == 3
\* The longest buffer handed to one write.
MaxBuf == 2
\* The largest max_file_size configured.
MaxFileSize == 3
\* The largest max_backup configured.
MaxBackup == 2
\* The number of files another process removes in a run.
MaxRemoved == 1
\* The resolution of the clock: ticks to the second.
TicksPerSec == 2
\* The largest interval count configured.
MaxInterval == 2
\* The number of times the clock is moved forward between calls.
MaxAdvances == 3

-----------------------------------------------------------------------------
(* Strings: sequences of ASCII codes. *)

Dot == <<46>>
AppLog == <<97, 112, 112, 46, 108, 111, 103>>      \* "app.log"

IsDigit(c) == c >= 48 /\ c <= 57

\* The index of the last '.' of s, 0 when there is none.
LastDot(s) ==
    LET at == {i \in 1..Len(s) : s[i] = 46}
    IN  IF at = {} THEN 0 ELSE CHOOSE i \in at : \A j \in at : j <= i

\* Path::extension(), for a one-component path: None (FALSE) when the name has
\* no '.', or only a leading one.
HasExtension(s) == LastDot(s) > 1

\* Path::extension().unwrap_or(""): the part after the last '.'.
Extension(s) ==
    IF HasExtension(s) THEN SubSeq(s, LastDot(s) + 1, Len(s)) ELSE <<>>

\* Path::file_stem(): the part before the last '.', the whole name when the
\* name has no extension.
FileStem(s) ==
    IF HasExtension(s) THEN SubSeq(s, 1, LastDot(s) - 1) ELSE s

\* str::parse::<u32>() succeeds.
IsNumeric(s) == Len(s) > 0 /\ \A i \in 1..Len(s) : IsDigit(s[i])

RECURSIVE ParseU32(_)
\* str::parse::<u32>(), of a string IsNumeric accepts.
ParseU32(s) ==
    IF s = <<>> THEN 0
    ELSE ParseU32(SubSeq(s, 1, Len(s) - 1)) * 10 + (s[Len(s)] - 48)

RECURSIVE ToStr(_)
\* format!("{}", n) of an unsigned integer.
ToStr(n) ==
    IF n < 10 THEN <<48 + n>> ELSE ToStr(n \div 10) \o <<48 + (n % 10)>>

\* get_log_names(p): the stem and the extension of the path (the parent
\* directory is the one directory of the model).
get_log_names(p) == [name |-> FileStem(p), ext |-> Extension(p)]

-----------------------------------------------------------------------------
(* The file system. *)

Exists(d, p) == p \in DOMAIN d

\* std::fs::rename(from, to): `to` is replaced when it exists.
Rename(d, from, to) ==
    [q \in (DOMAIN d \ {from}) \cup {to} |-> IF q = to THEN d[from] ELSE d[q]]

\* std::fs::remove_file(p).
RemoveFile(d, p) == [q \in DOMAIN d \ {p} |-> d[q]]

\* The inode OpenOptions::new().append(true).create(true).open(p) refers to:
\* the existing file's, or a fresh one.
OpenIno(d, dt, p) == IF Exists(d, p) THEN d[p] ELSE Len(dt) + 1

DiskAfterOpen(d, dt, p) ==
    IF Exists(d, p) THEN d
    ELSE [q \in DOMAIN d \cup {p} |-> IF q = p THEN Len(dt) + 1 ELSE d[q]]

DataAfterOpen(d, dt, p) == IF Exists(d, p) THEN dt ELSE Append(dt, <<>>)

-----------------------------------------------------------------------------
(* SizeRotatePolicy. *)

NoPolicy == [kind |-> "none"]

\* SizeRotatePolicy::new
SizeNew(max_file_size, max_backup) ==
    [kind |-> "size", max_file_size |-> max_file_size, max_backup |-> max_backup]

NoRotationNeededInclusive(max_file_size, buf_len, size) ==
    max_file_size >= buf_len + size

NoRotationNeededOffByOne(max_file_size, buf_len, size) ==
    max_file_size > buf_len + size + 1

\* line 41: the file stays below max_file_size with the pending bytes added.
NoRotationNeeded(max_file_size, buf_len, size) ==
    max_file_size > buf_len + size

BackupLimitInclusive(log_num, max_backup) == log_num >= max_backup

\* line 52: the next backup number is beyond max_backup.
BackupLimitExceeded(log_num, max_backup) == log_num > max_backup

\* lines 55-56: the name of backup log_num of a path that is itself a backup.
NextBackupName(name, log_num) ==
    FileStem(name) \o Dot \o Extension(name) \o Dot \o ToStr(log_num)

FirstBackupNameZero(name, ext) == name \o Dot \o ext \o Dot \o <<48>>

\* lines 58-59: the name of the first backup.
FirstBackupName(name, ext) == name \o Dot \o ext \o Dot \o <<49>>

\* What one call of a policy's rotate did: the value returned (rotated), or
\* that it panicked or never returned, the directory and the policy as it
\* left them, the renames and removals it made, in order, the depth of the
\* recursion, and whether the timed policy compared the clock with rollover_at.
Outcome(rotated, end, d, pol, renames, removes, depth) ==
    [rotated |-> rotated, end |-> end, disk |-> d, policy |-> pol,
     renames |-> renames, removes |-> removes, depth |-> depth,
     checked |-> FALSE]

AfterShiftAbort(shifted, pol, p, new_path) ==
    IF shifted.end # "ok"
    THEN [shifted EXCEPT !.depth = @ + 1]
    ELSE IF shifted.depth > 0 /\ ~shifted.rotated
    THEN Outcome(FALSE, "ok", shifted.disk, pol, shifted.renames, <<>>,
                 shifted.depth + 1)
    ELSE Outcome(TRUE, "ok", Rename(shifted.disk, p, new_path), pol,
                 Append(shifted.renames, <<p, new_path>>), <<>>,
                 shifted.depth + 1)

\* lines 64-69: what rotate does once the file at new_path, if there was one,
\* has been dealt with by the inner call (shifted is that call's outcome, of
\* depth 0 when there was no call): the value the inner call returned is
\* dropped, only its failure is passed on; then p is renamed.
AfterShift(shifted, pol, p, new_path) ==
    IF shifted.end # "ok"
    THEN [shifted EXCEPT !.depth = @ + 1]
    ELSE Outcome(TRUE, "ok", Rename(shifted.disk, p, new_path), pol,
                 Append(shifted.renames, <<p, new_path>>), <<>>,
                 shifted.depth + 1)

RECURSIVE SizeRotate(_, _, _, _, _)
\* SizeRotatePolicy::rotate(buf, p, file), lines 34-70; size is
\* file.metadata().len(), the length of the file the sink's handle refers to.
SizeRotate(pol, d, p, buf_len, size) ==
    IF NoRotationNeeded(pol.max_file_size, buf_len, size)
    THEN Outcome(FALSE, "ok", d, pol, <<>>, <<>>, 1)
    ELSE IF ~Exists(d, p)
    THEN Outcome(FALSE, "ok", d, pol, <<>>, <<>>, 1)
    ELSE
    LET names == get_log_names(p)
        numbered == HasExtension(names.name)
        log_num == ParseU32(names.ext) + 1
        new_path == IF numbered THEN NextBackupName(names.name, log_num)
                    ELSE FirstBackupName(names.name, names.ext)
    IN  IF numbered /\ ~IsNumeric(names.ext)
        THEN Outcome(FALSE, "panicked", d, pol, <<>>, <<>>, 1)
        ELSE IF numbered /\ BackupLimitExceeded(log_num, pol.max_backup)
        THEN Outcome(FALSE, "ok", d, pol, <<>>, <<>>, 1)
        ELSE
        AfterShift(IF Exists(d, new_path)
                   THEN SizeRotate(pol, d, new_path, buf_len, size)
                   ELSE Outcome(FALSE, "ok", d, pol, <<>>, <<>>, 0),
                   pol, p, new_path)

-----------------------------------------------------------------------------
(* Time. *)

\* Duration::from_secs(n), in ticks.
Secs(n) == n * TicksPerSec

\* line 13
MIDNIGHT == 60 * 60 * 24

\* The digits of n, zero-padded to width w (chrono's %Y, %m, %d, %H, %M, %S).
Pad(n, w) ==
    LET str == ToStr(n)
    IN  [i \in 1..(w - Len(str)) |-> 48] \o str

\* The civil date of the day `days` days after 1970-01-01 (the proleptic
\* Gregorian calendar chrono converts a timestamp with).
Civil(days) ==
    LET z == days + 719468
        era == z \div 146097
        doe == z - era * 146097
        yoe == (doe - doe \div 1460 + doe \div 36524 - doe \div 146096) \div 365
        doy == doe - (365 * yoe + yoe \div 4 - yoe \div 100)
        mp == (5 * doy + 2) \div 153
        day == doy - (153 * mp + 2) \div 5 + 1
        month == IF mp < 10 THEN mp + 3 ELSE mp - 9
        year == yoe + era * 400 + (IF month <= 2 THEN 1 ELSE 0)
    IN  [year |-> year, month |-> month, day |-> day]

\* DateTime::from(t) in the zone at `offset` seconds from UTC: the calendar
\* fields of the instant t.
DateTimeOf(t, offset) ==
    LET local == t \div TicksPerSec + offset
        sod == local % MIDNIGHT
        date == Civil(local \div MIDNIGHT)
    IN  [year |-> date.year, month |-> date.month, day |-> date.day,
         hour |-> sod \div 3600, minute |-> (sod % 3600) \div 60,
         second |-> sod % 60]

\* DateTime::format(fmt), for the four formats of lines 87-91.
FormatTime(dt, fmt) ==
    LET date == Pad(dt.year, 4) \o Pad(dt.month, 2) \o Pad(dt.day, 2)
    IN  CASE fmt = "%Y%m%d%H%M%S" ->
                date \o Pad(dt.hour, 2) \o Pad(dt.minute, 2) \o Pad(dt.second, 2)
          [] fmt = "%Y%m%d%H%M" -> date \o Pad(dt.hour, 2) \o Pad(dt.minute, 2)
          [] fmt = "%Y%m%d%H" -> date \o Pad(dt.hour, 2)
          [] fmt = "%Y%m%d" -> date

\* The order of Vec<PathBuf>::sort on names of one directory: byte by byte, a
\* proper prefix first.
LexLess(a, b) ==
    \/ \E i \in 1..Len(a) :
          /\ i <= Len(b)
          /\ a[i] < b[i]
          /\ \A j \in 1..(i - 1) : a[j] = b[j]
    \/ /\ Len(a) < Len(b)
       /\ \A j \in 1..Len(a) : a[j] = b[j]

\* The names glob("<p>.*") matches.
GlobBackups(d, p) ==
    {q \in DOMAIN d : Len(q) > Len(p) /\ SubSeq(q, 1, Len(p) + 1) = p \o Dot}

-----------------------------------------------------------------------------
(* TimedRotatePolicy. *)

\* lines 86-93: the seconds of the unit.
UnitSecs(when) ==
    CASE when = "S" -> 1
      [] when = "M" -> 60
      [] when = "H" -> 60 * 60
      [] when = "D" -> 60 * 60 * 24
      [] when = "MIDNIGHT" -> 60 * 60 * 24

\* lines 86-93: the format of the unit.
UnitFormat(when) ==
    CASE when = "S" -> "%Y%m%d%H%M%S"
      [] when = "M" -> "%Y%m%d%H%M"
      [] when = "H" -> "%Y%m%d%H"
      [] when = "D" -> "%Y%m%d"
      [] when = "MIDNIGHT" -> "%Y%m%d"

\* lines 94-98
UnitDuration(when, interval) ==
    IF when = "MIDNIGHT" THEN Secs(UnitSecs(when))
    ELSE Secs(UnitSecs(when) * interval)

MidnightDeltaMinutesAsSeconds(dt) ==
    MIDNIGHT - (dt.hour * 60 + dt.minute * 60 + dt.second)

\* lines 135-136
MidnightDelta(dt) == MIDNIGHT - ((dt.hour * 60 + dt.minute) * 60 + dt.second)

\* TimedRotatePolicy::compute_rollover, lines 120-142; offset is the offset of
\* the local zone.
compute_rollover(now, utc, midnight, duration, offset) ==
    IF midnight
    THEN now + Secs(MidnightDelta(DateTimeOf(now, IF utc THEN 0 ELSE offset)))
    ELSE now + duration

\* TimedRotatePolicy::new, lines 84-118: seed is the target's modification
\* time when it exists, else the clock; now is the clock read of line 107.
\* The offset of the local zone, which DateTime<Local> takes from the
\* environment, is kept with the policy; it does not change during a run.
TimedNew(interval, when, utc, max_backup, seed, now, offset) ==
    LET is_utc == utc \in {"U", "UTC"}
        midnight == when = "MIDNIGHT"
        duration == UnitDuration(when, interval)
    IN  [kind |-> "time",
         rollover_at |-> compute_rollover(seed, is_utc, midnight, duration, offset),
         duration |-> duration,
         format |-> UnitFormat(when),
         max_backup |-> max_backup,
         check_time |-> now,
         midnight |-> midnight,
         utc |-> is_utc,
         offset |-> offset]

get_timed_filename_next(pol, p) ==
    LET names == get_log_names(p)
        suffix == FormatTime(DateTimeOf(pol.rollover_at,
                                        IF pol.utc THEN 0 ELSE pol.offset),
                             pol.format)
    IN  names.name \o Dot \o names.ext \o Dot \o suffix

\* TimedRotatePolicy::get_timed_filename, lines 144-156.
get_timed_filename(pol, p) ==
    LET names == get_log_names(p)
        delta == pol.rollover_at - pol.duration
        suffix == FormatTime(DateTimeOf(delta, IF pol.utc THEN 0 ELSE pol.offset),
                             pol.format)
    IN  names.name \o Dot \o names.ext \o Dot \o suffix

PruneListNewest(sorted, max_backup) ==
    SubSeq(sorted, max_backup + 1, Len(sorted))

\* line 198: the names drained from the sorted list and removed.
PruneList(sorted, max_backup) ==
    SubSeq(sorted, 1, Len(sorted) - max_backup)

\* TimedRotatePolicy::remove_old_backup, lines 182-205: the names it removes,
\* in order.
remove_old_backup(d, p, max_backup) ==
    LET tmp == GlobBackups(d, p)
        size == Cardinality(tmp)
        sorted == [i \in 1..size |->
                      CHOOSE q \in tmp :
                          Cardinality({r \in tmp : LexLess(r, q)}) = i - 1]
    IN  IF size > max_backup THEN PruneList(sorted, max_backup) ELSE <<>>

RECURSIVE RemoveAll(_, _)
RemoveAll(d, names) ==
    IF names = <<>> THEN d ELSE RemoveAll(RemoveFile(d, Head(names)), Tail(names))

RECURSIVE AdvancePast(_, _, _)
\* lines 175-177: the loop that adds duration while the instant is <= now; a
\* duration of zero never leaves it (end "hung").
AdvancePast(new_rollover_at, now, duration) ==
    IF new_rollover_at > now THEN [end |-> "ok", at |-> new_rollover_at]
    ELSE IF duration = 0 THEN [end |-> "hung", at |-> new_rollover_at]
    ELSE AdvancePast(new_rollover_at + duration, now, duration)

\* The I/O operations of a call that can fail; `fault` names the one that
\* does ("none": no failure).
Faults == {"none", "remove", "rename", "prune", "open"}

NextRolloverStale(pol, now) == [end |-> "ok", at |-> pol.rollover_at]

\* lines 173-177: the next rollover instant, computed from now.
NextRollover(pol, now) ==
    AdvancePast(compute_rollover(now, pol.utc, pol.midnight, pol.duration,
                                 pol.offset),
                now, pol.duration)

\* TimedRotatePolicy::timed_rotate, lines 158-180.  Each `?` returns the
\* error at once (end "err"), leaving what was done before it: line 168 fails
\* under "remove", line 171 under "rename", the first remove_file of line 199
\* under "prune".
timed_rotate(pol, now, d, p, fault) ==
    IF pol.rollover_at > now
    THEN Outcome(FALSE, "ok", d, pol, <<>>, <<>>, 1)
    ELSE IF ~Exists(d, p)
    THEN Outcome(FALSE, "ok", d, pol, <<>>, <<>>, 1)
    ELSE
    LET new_path == get_timed_filename(pol, p)
        replaced == IF Exists(d, new_path) THEN <<new_path>> ELSE <<>>
        renamed == Rename(RemoveAll(d, replaced), p, new_path)
        pruned == remove_old_backup(renamed, p, pol.max_backup)
        next == NextRollover(pol, now)
    IN  IF fault = "remove" /\ replaced # <<>>
        THEN Outcome(FALSE, "err", d, pol, <<>>, <<>>, 1)
        ELSE IF fault = "rename"
        THEN Outcome(FALSE, "err", RemoveAll(d, replaced), pol, <<>>,
                     replaced, 1)
        ELSE IF fault = "prune" /\ pruned # <<>>
        THEN Outcome(FALSE, "err", renamed, pol, <<<<p, new_path>>>>,
                     replaced, 1)
        ELSE Outcome(next.end = "ok", next.end, RemoveAll(renamed, pruned),
                     IF next.end = "ok"
                     THEN [pol EXCEPT !.rollover_at = next.at] ELSE pol,
                     <<<<p, new_path>>>>, replaced \o pruned, 1)

ThrottleOff(elapsed) == elapsed >= 0

\* line 211: at least one whole second since the last check.
ThrottlePassed(elapsed) == elapsed \div TicksPerSec >= 1

\* <TimedRotatePolicy as RotatePolicy>::rotate, lines 209-217; t1, t2 and t3
\* are its three reads of the clock (elapsed(), line 212, line 213).
TimedRotate(pol, d, p, t1, t2, t3, fault) ==
    IF t1 >= pol.check_time /\ ThrottlePassed(t1 - pol.check_time)
    THEN [timed_rotate([pol EXCEPT !.check_time = t2], t3, d, p, fault)
            EXCEPT !.checked = TRUE]
    ELSE Outcome(FALSE, "ok", d, pol, <<>>, <<>>, 1)

-----------------------------------------------------------------------------
(* LogFile. *)

\* RotatePolicy::rotate, dispatched on the boxed policy.
PolicyRotate(pol, d, dt, p, h, buf, t1, t2, t3, fault) ==
    IF pol.kind = "size" THEN SizeRotate(pol, d, p, Len(buf), Len(dt[h]))
    ELSE TimedRotate(pol, d, p, t1, t2, t3, fault)

NewFileWhenAbsent(h, out) == h = 0 \/ (out.end = "ok" /\ out.rotated)

NewFileNever(h, out) == FALSE

\* lines 245-266: try_rotate has a new file to open exactly when the sink
\* has a handle and the policy reported a rotation.
NewFile(h, out) == h # 0 /\ out.end = "ok" /\ out.rotated

\* The renames of the target itself among the renames of a call.
TargetRenames(renames, p) == {i \in 1..Len(renames) : renames[i][1] = p}

\* LogFile::open, lines 235-242.
Open ==
    /\ status = "running"
    /\ inner' = OpenIno(disk, data, log_file)
    /\ disk' = DiskAfterOpen(disk, data, log_file)
    /\ data' = DataAfterOpen(disk, data, log_file)
    /\ UNCHANGED <<log_file, policy, clock, tz, cfg, ret, calls, rotLog,
                   lastCheck, breached, removed, advances, status>>

\* <LogFile as Write>::write, lines 276-283, with LogFile::try_rotate, lines
\* 244-272.  The bytes of the n-th write all have the value n; d1 and d2 are
\* the ticks that pass between the timed policy's reads of the clock.  Under
\* the fault "open" the open of line 255 fails: the error is returned before
\* line 268 assigns, so the sink keeps the handle it had.
Write(len, d1, d2, fault) ==
    /\ status = "running"
    /\ calls < MaxCalls
    /\ \E buf \in {[j \in 1..len |-> calls + 1]} :
       \E out \in {IF inner = 0
                   THEN Outcome(FALSE, "ok", disk, policy, <<>>, <<>>, 0)
                   ELSE PolicyRotate(policy, disk, data, log_file, inner, buf,
                                     clock, clock + d1, clock + d1 + d2,
                                     fault)} :
       LET failed == out.end = "err" \/ (NewFile(inner, out) /\ fault = "open")
           reopened == NewFile(inner, out) /\ fault # "open"
           handle == IF reopened THEN OpenIno(out.disk, data, log_file) ELSE inner
           disk2 == IF reopened THEN DiskAfterOpen(out.disk, data, log_file)
                    ELSE out.disk
           data2 == IF reopened THEN DataAfterOpen(out.disk, data, log_file)
                    ELSE data
           written == IF out.end = "ok" /\ ~failed /\ handle # 0 THEN len
                      ELSE 0
           rotated == TargetRenames(out.renames, log_file)
       IN  /\ calls' = calls + 1
           /\ status' = IF out.end \in {"ok", "err"} THEN "running"
                        ELSE out.end
           /\ policy' = out.policy
           /\ inner' = handle
           /\ disk' = disk2
           /\ data' = IF written > 0
                      THEN [data2 EXCEPT ![handle] = @ \o buf] ELSE data2
           /\ clock' = IF out.checked THEN clock + d1 + d2 ELSE clock
           /\ ret' = [op |-> "write", at |-> clock, buf |-> buf, n |-> written,
                      rotated |-> out.rotated, renames |-> out.renames,
                      removes |-> out.removes, depth |-> out.depth,
                      checked |-> out.checked, err |-> failed]
           /\ rotLog' = rotLog \o
                  [i \in 1..Cardinality(rotated) |->
                      [ino |-> disk[log_file], bytes |-> data[disk[log_file]],
                       name |-> out.renames[CHOOSE j \in rotated : TRUE][2]]]
           /\ lastCheck' = IF out.checked THEN clock ELSE lastCheck
           /\ breached' = (breached \/
                  (inner # 0 /\ policy.kind = "size"
                   /\ Len(data[inner]) + len >= policy.max_file_size))
    /\ UNCHANGED <<log_file, tz, cfg, removed, advances>>

\* <LogFile as Write>::flush, lines 285-291: the file is unbuffered.
Flush ==
    /\ status = "running"
    /\ UNCHANGED vars

\* Another process removes a file of the directory.
ExternalRemove(p) ==
    /\ status = "running"
    /\ removed < MaxRemoved
    /\ Exists(disk, p)
    /\ disk' = RemoveFile(disk, p)
    /\ removed' = removed + 1
    /\ UNCHANGED <<log_file, inner, policy, data, clock, tz, cfg, ret, calls,
                   rotLog, lastCheck, breached, advances, status>>

\* Time passes between two calls.
Tick(d) ==
    /\ status = "running"
    /\ advances < MaxAdvances
    /\ d > 0
    /\ clock' = clock + d
    /\ advances' = advances + 1
    /\ UNCHANGED <<log_file, inner, policy, disk, data, tz, cfg, ret, calls,
                   rotLog, lastCheck, breached, removed, status>>

-----------------------------------------------------------------------------
(* The sink with the size policy: "size:<max_file_size>:<max_backup>:app.log" *)
(* in an empty directory.                                                  *)

Init ==
    /\ log_file = AppLog
    /\ inner = 0
    /\ \E max_file_size \in 1..MaxFileSize, max_backup \in 0..MaxBackup :
          /\ policy = SizeNew(max_file_size, max_backup)
          /\ cfg = [kind |-> "size", max_file_size |-> max_file_size,
                    max_backup |-> max_backup]
    /\ disk = <<>>
    /\ data = <<>>
    /\ clock = 0
    /\ tz = 0
    /\ ret = [op |-> "new"]
    /\ calls = 0
    /\ rotLog = <<>>
    /\ lastCheck = -1
    /\ breached = FALSE
    /\ removed = 0
    /\ advances = 0
    /\ status = "running"

Next ==
    \/ Open
    \/ \E len \in 0..MaxBuf : Write(len, 0, 0, "none")
    \/ Flush
    \/ \E p \in DOMAIN disk : ExternalRemove(p)

Spec == Init /\ [][Next]_vars

-----------------------------------------------------------------------------
(* Properties of the size policy, checked under Spec. *)

\* The files of the directory other than the target.
Backups(d, p) == DOMAIN d \ {p}

\* The name of backup number i of the target: "<target>.<i>".
BackupPath(i) == log_file \o Dot \o ToStr(i)

\* A step that is a write call of an opened sink with the size policy whose
\* target exists; ret' holds its pending bytes.
SizeWriteStep ==
    /\ calls' = calls + 1
    /\ policy.kind = "size"
    /\ inner # 0
    /\ Exists(disk, log_file)

\* The write call of the step finds current length + pending length at or
\* above max_file_size.
BreachingStep ==
    /\ SizeWriteStep
    /\ Len(data[inner]) + Len(ret'.buf) >= policy.max_file_size

\* The step rotated the target once, before writing: the file that was the
\* target is backup 1, unchanged, and the target is a new file holding the
\* pending bytes only.
RotatedOnceBeforeWriting ==
    /\ ret'.rotated
    /\ Len(rotLog') = Len(rotLog) + 1
    /\ Cardinality(TargetRenames(ret'.renames, log_file)) = 1
    /\ Exists(disk', BackupPath(1))
    /\ disk'[BackupPath(1)] = disk[log_file]
    /\ data'[disk[log_file]] = data[disk[log_file]]
    /\ Exists(disk', log_file)
    /\ disk'[log_file] # disk[log_file]
    /\ data'[disk'[log_file]] = ret'.buf
    /\ ret'.n = Len(ret'.buf)

\* C1: with the size policy, as long as every write found current length +
\* pending length strictly below max_file_size, no rotation has been made and
\* the directory holds no backup.
C1_NoRotationBelowMax ==
    (policy.kind = "size" /\ ~breached) =>
        /\ rotLog = <<>>
        /\ Backups(disk, log_file) = {}

\* Two writes have accumulated in the target, which is still below
\* max_file_size.
C1_Witness ==
    /\ policy.kind = "size"
    /\ ~breached
    /\ inner # 0
    /\ Exists(disk, log_file)
    /\ disk[log_file] = inner
    /\ Len(data[inner]) >= 2
    /\ data[inner][1] # data[inner][2]

\* C2: every write of an opened sink whose target exists that finds current
\* length + pending length >= max_file_size rotates exactly once, and before
\* it writes: when it returns the target holds exactly the pending bytes and
\* backup 1 is the previous target file, its content unchanged.
C2_BreachRotatesOnce == [][BreachingStep => RotatedOnceBeforeWriting]_vars

\* A write has just rotated a file that was not empty.
C2_Witness ==
    /\ policy.kind = "size"
    /\ ret.op = "write"
    /\ ret.rotated
    /\ Len(ret.buf) > 0
    /\ Exists(disk, log_file)
    /\ data[disk[log_file]] = ret.buf
    /\ Exists(disk, BackupPath(1))
    /\ data[disk[BackupPath(1)]] # <<>>

\* A step that writes max_file_size bytes to an opened sink whose target is
\* empty.
FullWriteToEmptyStep ==
    /\ SizeWriteStep
    /\ inner = disk[log_file]
    /\ data[inner] = <<>>
    /\ Len(ret'.buf) = policy.max_file_size

\* C3 as stated: a write of max_file_size bytes to an empty target does not
\* rotate; the bytes go to the original file and no backup is created.
C3_Original ==
    [][FullWriteToEmptyStep =>
          /\ ~ret'.rotated
          /\ disk' = disk
          /\ data'[inner] = ret'.buf]_vars

\* C3 as amended: a write of max_file_size bytes to an empty target rotates
\* once: the empty file becomes backup 1 and the bytes go to a new target.
C3_FullWriteRotates ==
    [][FullWriteToEmptyStep =>
          /\ RotatedOnceBeforeWriting
          /\ disk'[BackupPath(1)] = inner
          /\ data'[inner] = <<>>]_vars

\* The first write, of max_file_size bytes, has left an empty backup 1.
C3_Witness ==
    /\ policy.kind = "size"
    /\ ret.op = "write"
    /\ ret.rotated
    /\ Len(ret.buf) = policy.max_file_size
    /\ Len(rotLog) = 1
    /\ rotLog[1].bytes = <<>>
    /\ Exists(disk, BackupPath(1))
    /\ data[disk[BackupPath(1)]] = <<>>
    /\ Exists(disk, log_file)
    /\ data[disk[log_file]] = ret.buf

\* A breaching step taken when backups 1..max_backup all exist, max_backup >= 1.
FullChainStep ==
    /\ BreachingStep
    /\ inner = disk[log_file]
    /\ policy.max_backup >= 1
    /\ \A i \in 1..policy.max_backup : Exists(disk, BackupPath(i))

\* C4 as stated: when backups 1..max_backup all exist, a breaching write
\* does not rotate: nothing is renamed, the backups are kept, and the bytes
\* are appended to the old target file.
C4_Original ==
    [][FullChainStep =>
          /\ ~ret'.rotated
          /\ ret'.renames = <<>>
          /\ disk' = disk
          /\ data'[inner] = data[inner] \o ret'.buf]_vars

\* C4 as amended: when backups 1..max_backup all exist, a breaching write
\* rotates: the file that was backup max_backup is gone from the directory,
\* every backup i < max_backup has become backup i + 1, the target has
\* become backup 1, no backup's content changed, and the bytes are in a new
\* target file.
C4_FullChainShifts ==
    [][FullChainStep =>
          /\ RotatedOnceBeforeWriting
          /\ \A i \in 1..(policy.max_backup - 1) :
                /\ Exists(disk', BackupPath(i + 1))
                /\ disk'[BackupPath(i + 1)] = disk[BackupPath(i)]
          /\ Backups(disk', log_file) = {BackupPath(i) : i \in 1..policy.max_backup}
          /\ \A q \in DOMAIN disk' : disk'[q] # disk[BackupPath(policy.max_backup)]
          /\ \A i \in 1..Len(data) : i # inner => data'[i] = data[i]
          /\ DOMAIN disk' = DOMAIN disk]_vars

\* Two backups existed and the last write shifted them.
C4_Witness ==
    /\ policy.kind = "size"
    /\ policy.max_backup >= 2
    /\ removed = 0
    /\ ret.op = "write"
    /\ ret.rotated
    /\ Len(ret.renames) = policy.max_backup
    /\ Len(rotLog) = policy.max_backup + 1
    /\ \A i \in 1..policy.max_backup : Exists(disk, BackupPath(i))

\* C5: with max_backup = m >= 1 and no backups at the start, after more than
\* m rotations (and no file removed by another process) the backups in the
\* directory are exactly <target>.1 .. <target>.m.
C5_BackupsAreOneToM ==
    (/\ policy.kind = "size"
     /\ policy.max_backup >= 1
     /\ removed = 0
     /\ Len(rotLog) > policy.max_backup) =>
        Backups(disk, log_file) = {BackupPath(i) : i \in 1..policy.max_backup}

\* Three rotations with max_backup = 2.
C5_Witness ==
    /\ policy.kind = "size"
    /\ policy.max_backup >= 2
    /\ removed = 0
    /\ Len(rotLog) > policy.max_backup
    /\ Cardinality(Backups(disk, log_file)) = policy.max_backup

\* C6 as stated: after k > m rotations, backup m is the file rotated last
\* and backup 1 the least recent file retained (the one rotated m - 1
\* rotations before the last).
C6_Original ==
    (/\ policy.kind = "size"
     /\ policy.max_backup >= 1
     /\ removed = 0
     /\ Len(rotLog) > policy.max_backup) =>
        LET k == Len(rotLog)
            m == policy.max_backup
        IN  /\ Exists(disk, BackupPath(m))
            /\ disk[BackupPath(m)] = rotLog[k].ino
            /\ Exists(disk, BackupPath(1))
            /\ disk[BackupPath(1)] = rotLog[k - m + 1].ino

\* C6 as amended: after k > m rotations, backup i (1 <= i <= m) is the file
\* rotated by the i-th last rotation, with the content it had when rotated:
\* backup 1 is the most recent one, backup m the least recent retained.
C6_NewestIsBackupOne ==
    (/\ policy.kind = "size"
     /\ policy.max_backup >= 1
     /\ removed = 0
     /\ Len(rotLog) > policy.max_backup) =>
        LET k == Len(rotLog)
        IN  \A i \in 1..policy.max_backup :
                /\ Exists(disk, BackupPath(i))
                /\ disk[BackupPath(i)] = rotLog[k - i + 1].ino
                /\ data[disk[BackupPath(i)]] = rotLog[k - i + 1].bytes

\* Three rotations with max_backup = 2, of files with different contents.
C6_Witness ==
    /\ policy.kind = "size"
    /\ policy.max_backup >= 2
    /\ removed = 0
    /\ Len(rotLog) > policy.max_backup
    /\ Exists(disk, BackupPath(1))
    /\ Exists(disk, BackupPath(2))
    /\ data[disk[BackupPath(1)]] # data[disk[BackupPath(2)]]
    /\ data[disk[BackupPath(1)]] = rotLog[Len(rotLog)].bytes

\* C7: with max_backup = 0 the size policy never rotates: the target is
\* never renamed and the directory never holds a backup.
C7_ZeroBackupsDisablesRotation ==
    (policy.kind = "size" /\ policy.max_backup = 0) =>
        /\ rotLog = <<>>
        /\ Backups(disk, log_file) = {}
        /\ (ret.op = "write" => ~ret.rotated)

-----------------------------------------------------------------------------
(* The sink with the timed policy: "time:<interval>:<when>:<utc>:<max_backup>: *)
(* app.log", constructed when the target does not exist or was last        *)
(* written one period ago.                                                 *)

Units == {"S", "M", "H", "D", "MIDNIGHT"}

\* 1979-12-31 23:59:58 UTC: the second, minute, hour, day, month and year
\* all change within two seconds.
StartInstant == Secs(315532798)

\* The offset of the local zone: UTC+9.
LocalOffset == 9 * 3600

\* The ticks that pass between the three clock reads of one evaluate call.
Skews == {<<0, 0>>, <<1, 1>>}

InitTimed ==
    /\ log_file = AppLog
    /\ inner = 0
    /\ clock = StartInstant
    /\ tz = LocalOffset
    /\ \E interval \in 1..MaxInterval, when \in Units, utc \in {"U", "L"},
          max_backup \in 0..MaxBackup, age \in {-1, 1} :
          LET exists == age >= 0
              seed == IF exists THEN clock - age * UnitDuration(when, interval)
                      ELSE clock
          IN  /\ cfg = [kind |-> "time", interval |-> interval, when |-> when,
                        utc |-> utc, max_backup |-> max_backup, seed |-> seed]
              /\ policy = TimedNew(interval, when, utc, max_backup, seed, clock, tz)
              /\ disk = IF exists THEN [q \in {log_file} |-> 1] ELSE <<>>
              /\ data = IF exists THEN << <<0>> >> ELSE <<>>
    /\ ret = [op |-> "new"]
    /\ calls = 0
    /\ rotLog = <<>>
    /\ lastCheck = -1
    /\ breached = FALSE
    /\ removed = 0
    /\ advances = 0
    /\ status = "running"

\* The timed policy ignores the pending bytes: every write is of MaxBuf bytes.
NextTimed ==
    \/ Open
    \/ \E sk \in Skews : Write(MaxBuf, sk[1], sk[2], "none")
    \/ Flush
    \/ \E d \in {1, policy.duration} : Tick(d)

SpecTimed == InitTimed /\ [][NextTimed]_vars

-----------------------------------------------------------------------------
(* Properties of the timed policy, checked under SpecTimed. *)

Min(a, b) == IF a < b THEN a ELSE b

\* C8: with the timed policy, max_backup = m and no other file matching
\* "<target>.*", after k rotations the backups in the directory are exactly
\* those made by the last min(k, m) rotations, each the file that rotation
\* renamed; the names made so far are distinct and increase in the order of
\* sort, so these are the min(k, m) largest names.
C8_NewestBackupsKept ==
    (policy.kind = "time" /\ status = "running") =>
        LET k == Len(rotLog)
            kept == (k - Min(k, policy.max_backup) + 1)..k
        IN  /\ \A i, j \in 1..k : i < j => LexLess(rotLog[i].name, rotLog[j].name)
            /\ GlobBackups(disk, log_file) = {rotLog[i].name : i \in kept}
            /\ \A i \in kept : disk[rotLog[i].name] = rotLog[i].ino

\* Three rotations with max_backup = 2: the first backup has been removed.
C8_Witness ==
    /\ policy.kind = "time"
    /\ policy.max_backup >= 2
    /\ Len(rotLog) > policy.max_backup
    /\ ~Exists(disk, rotLog[1].name)
    /\ Cardinality(GlobBackups(disk, log_file)) = policy.max_backup
    /\ ret.op = "write"
    /\ ret.removes = <<rotLog[Len(rotLog) - policy.max_backup].name>>

\* C9: a call of evaluate that compares the clock with rollover_at is made
\* at least one second after the previous call that did, and a call rotates
\* the target at most once.
C9_Throttle ==
    [][calls' = calls + 1 /\ policy.kind = "time" =>
          /\ (ret'.checked /\ lastCheck >= 0 =>
                 ret'.at - lastCheck >= TicksPerSec)
          /\ Len(rotLog') <= Len(rotLog) + 1
          /\ Cardinality(TargetRenames(ret'.renames, log_file)) <= 1]_vars

\* A call made less than a second after a call that rotated was throttled.
C9_Witness ==
    /\ policy.kind = "time"
    /\ ret.op = "write"
    /\ ~ret.checked
    /\ inner # 0
    /\ lastCheck >= 0
    /\ ret.at > lastCheck
    /\ ret.at - lastCheck < TicksPerSec
    /\ Len(rotLog) >= 1

-----------------------------------------------------------------------------
(* The construction of the timed policy, for seed instants over one day.   *)

\* 1980-01-01 00:00:00 UTC, in seconds.
DayStart == 3652 * MIDNIGHT

SeedInstants ==
    {Secs(DayStart + h * 3600 + m * 60 + sec) + f :
        h \in 0..23, m \in {0, 30, 59}, sec \in {0, 1, 59},
        f \in 0..(TicksPerSec - 1)}

\* The offsets of the local zone: UTC+9 and UTC-3:30.
LocalOffsets == {9 * 3600, -(3 * 3600 + 1800)}

InitNew ==
    /\ log_file = AppLog
    /\ inner = 0
    /\ policy = NoPolicy
    /\ tz \in LocalOffsets
    /\ \E interval \in 0..MaxInterval, when \in Units, utc \in {"U", "L"},
          seed \in SeedInstants, exists \in BOOLEAN :
          /\ cfg = [kind |-> "time", interval |-> interval, when |-> when,
                    utc |-> utc, max_backup |-> 0, seed |-> seed]
          /\ disk = IF exists THEN [q \in {log_file} |-> 1] ELSE <<>>
          /\ data = IF exists THEN << <<0>> >> ELSE <<>>
          /\ clock = IF exists THEN seed + Secs(1) ELSE seed
    /\ ret = [op |-> "none"]
    /\ calls = 0
    /\ rotLog = <<>>
    /\ lastCheck = -1
    /\ breached = FALSE
    /\ removed = 0
    /\ advances = 0
    /\ status = "running"

\* TimedRotatePolicy::new as called by from_str, lines 310-322: cfg.seed is
\* the target's modification time when the target exists.
Construct ==
    /\ policy = NoPolicy
    /\ policy' = TimedNew(cfg.interval, cfg.when, cfg.utc, cfg.max_backup,
                          IF Exists(disk, log_file) THEN cfg.seed ELSE clock,
                          clock, tz)
    /\ ret' = [op |-> "new"]
    /\ UNCHANGED <<log_file, inner, disk, data, clock, tz, cfg, calls, rotLog,
                   lastCheck, breached, removed, advances, status>>

NextNew == Construct

SpecNew == InitNew /\ [][NextNew]_vars

-----------------------------------------------------------------------------
(* Properties of the construction, checked under SpecNew. *)

\* The seed instant of the construction: the target's modification time, or
\* the clock.
SeedOf == IF Exists(disk, log_file) THEN cfg.seed ELSE clock

\* The seconds since midnight of the seed instant, in the selected zone.
SeedSecondOfDay ==
    (SeedOf \div TicksPerSec + (IF cfg.utc = "U" THEN 0 ELSE tz)) % 86400

\* C10: for the unit MIDNIGHT, rollover_at is the seed plus 86400 - (the
\* seconds since midnight of the seed in the selected zone), which is between
\* 1 and 86400 seconds and ends on a midnight of that zone, and the interval
\* is 86400 seconds, whatever the interval count.
C10_MidnightRollover ==
    (policy.kind = "time" /\ cfg.when = "MIDNIGHT") =>
        LET delta == 86400 - SeedSecondOfDay
        IN  /\ policy.rollover_at = SeedOf + delta * TicksPerSec
            /\ delta >= 1
            /\ delta <= 86400
            /\ (SeedSecondOfDay + delta) % 86400 = 0
            /\ policy.duration = 86400 * TicksPerSec

\* Seed 14:30:00 UTC, interval count 2: rollover_at is 9 h 30 min later.
C10_Witness ==
    /\ policy.kind = "time"
    /\ cfg.when = "MIDNIGHT"
    /\ cfg.utc = "U"
    /\ cfg.interval = 2
    /\ SeedSecondOfDay = 14 * 3600 + 30 * 60
    /\ policy.rollover_at - SeedOf = (9 * 3600 + 30 * 60) * TicksPerSec

-----------------------------------------------------------------------------
(* Properties of the sink's handle, checked under Spec. *)

\* A step that is a write call made while the sink has no handle.
AbsentWriteStep ==
    /\ calls' = calls + 1
    /\ inner = 0

\* C12 as stated: a write call made while the handle is absent opens the
\* target before proceeding, so that on return the handle is present, refers
\* to the target, and the bytes are written.
C12_Original ==
    [][AbsentWriteStep =>
          /\ inner' # 0
          /\ Exists(disk', log_file)
          /\ disk'[log_file] = inner'
          /\ ret'.n = Len(ret'.buf)]_vars

\* C12 as amended: the handle goes from absent to present only by open(),
\* never by a write call; after the step it refers to the file at the target
\* path.
C12_OnlyOpenOpens ==
    [][(inner = 0 /\ inner' # 0) =>
          /\ calls' = calls
          /\ Exists(disk', log_file)
          /\ inner' = disk'[log_file]]_vars

\* A write of a nonempty buffer was made while the handle was absent and
\* returned 0; open() then made the handle present, on an empty target.
C12_Witness ==
    /\ ret.op = "write"
    /\ Len(ret.buf) > 0
    /\ ret.n = 0
    /\ inner # 0
    /\ Exists(disk, log_file)
    /\ data[inner] = <<>>

\* C13: a write call on a sink that was never opened returns success with 0
\* bytes written and changes nothing: the handle stays absent, the policy is
\* not evaluated, and no file is created, renamed or deleted.
C13_NeverOpenedIsInert ==
    [][AbsentWriteStep =>
          /\ ret'.n = 0
          /\ ~ret'.err
          /\ ~ret'.checked
          /\ ret'.renames = <<>>
          /\ ret'.removes = <<>>
          /\ UNCHANGED <<inner, policy, disk, data, status>>]_vars

\* Every write call allowed was made on the never-opened sink, the last one
\* with the largest buffer; the directory is still empty.
C13_Witness ==
    /\ calls = MaxCalls
    /\ ret.op = "write"
    /\ Len(ret.buf) = MaxBuf
    /\ ret.n = 0
    /\ inner = 0
    /\ disk = <<>>

-----------------------------------------------------------------------------
(* The sink with either policy, alone in its directory: the runs of Spec   *)
(* without the other process, and the runs of SpecTimed.                   *)

InitEither == Init \/ InitTimed

NextEither ==
    \/ /\ policy.kind = "size"
       /\ \/ Open
          \/ \E len \in 0..MaxBuf : Write(len, 0, 0, "none")
          \/ Flush
    \/ /\ policy.kind = "time"
       /\ NextTimed

SpecEither == InitEither /\ [][NextEither]_vars

\* C20: once open() or a write call has returned with the handle present,
\* the handle refers to the file that is at the target path; the handle is
\* never lost, and a write call of an opened sink appends all its bytes to
\* the end of the file that is at the target path when it returns.
C20_HandleIsTarget ==
    [][/\ inner' # 0 =>
             /\ Exists(disk', log_file)
             /\ disk'[log_file] = inner'
       /\ inner # 0 => inner' # 0
       /\ (calls' = calls + 1 /\ inner # 0) =>
             LET file == data'[inner']
                 n == Len(ret'.buf)
             IN  /\ ret'.n = n
                 /\ Len(file) >= n
                 /\ SubSeq(file, Len(file) - n + 1, Len(file)) = ret'.buf]_vars

\* The timed policy has rotated twice and kept no backup (max_backup = 0):
\* the files the handle referred to were renamed and deleted, and the handle
\* refers to the new target, which holds the last write.
C20_Witness ==
    /\ policy.kind = "time"
    /\ policy.max_backup = 0
    /\ Len(rotLog) >= 2
    /\ ret.op = "write"
    /\ ret.rotated
    /\ Backups(disk, log_file) = {}
    /\ inner = disk[log_file]
    /\ data[inner] = ret.buf

-----------------------------------------------------------------------------
(* The sink with the timed policy in a directory where I/O operations can  *)
(* fail and another process can remove the target:                         *)
(* "time:<interval>:<when>:U:<max_backup>:app.log" with interval from 0,   *)
(* constructed when the target was last written one period ago; a backup   *)
(* of an earlier run may bear the name of the first backup to come.        *)

InitTimedIO ==
    /\ log_file = AppLog
    /\ inner = 0
    /\ clock = StartInstant
    /\ tz = LocalOffset
    /\ \E interval \in 0..MaxInterval, when \in Units,
          max_backup \in 0..MaxBackup, stale \in BOOLEAN :
          LET seed == clock - UnitDuration(when, interval)
              pol == TimedNew(interval, when, "U", max_backup, seed, clock, tz)
              first == log_file \o Dot \o
                       FormatTime(DateTimeOf(pol.rollover_at - pol.duration, 0),
                                  pol.format)
          IN  /\ cfg = [kind |-> "time", interval |-> interval, when |-> when,
                        utc |-> "U", max_backup |-> max_backup, seed |-> seed]
              /\ policy = pol
              /\ disk = IF stale
                        THEN [q \in {log_file, first} |->
                                 IF q = log_file THEN 1 ELSE 2]
                        ELSE [q \in {log_file} |-> 1]
              /\ data = IF stale THEN << <<0>>, <<-1>> >> ELSE << <<0>> >>
    /\ ret = [op |-> "new"]
    /\ calls = 0
    /\ rotLog = <<>>
    /\ lastCheck = -1
    /\ breached = FALSE
    /\ removed = 0
    /\ advances = 0
    /\ status = "running"

\* Runs of at most MaxCalls + 1 write calls, clock advances and removals.
NextTimedIO ==
    \/ Open
    \/ Flush
    \/ /\ calls + advances + removed <= MaxCalls
       /\ \/ \E fault \in Faults : Write(MaxBuf, 0, 0, fault)
          \/ \E d \in {Secs(1), policy.duration} : Tick(d)
          \/ ExternalRemove(log_file)

SpecTimedIO == InitTimedIO /\ [][NextTimedIO]_vars

-----------------------------------------------------------------------------
(* Properties of the timed policy, checked under SpecTimedIO. *)

\* A step that is a write call of an opened sink with the timed policy, that
\* is, a call of the policy's evaluate.
TimedEvalStep ==
    /\ calls' = calls + 1
    /\ policy.kind = "time"
    /\ inner # 0

\* C11: over a call of evaluate, whether throttled, not due, with the target
\* missing, rotating or failing with an I/O error, rollover_at does not
\* decrease, and it increases when the call reports a rotation.
C11_RolloverNeverBack ==
    [][TimedEvalStep =>
          /\ policy'.rollover_at >= policy.rollover_at
          /\ ret'.rotated => policy'.rollover_at > policy.rollover_at]_vars

\* A call reported a rotation, after an earlier call had renamed the target
\* as well, and left rollover_at after the instant of the call.
C11_Witness ==
    /\ policy.kind = "time"
    /\ ret.op = "write"
    /\ ret.rotated
    /\ Len(rotLog) >= 2
    /\ policy.rollover_at > ret.at

\* The call before the step failed after the policy had renamed the target.
FailedAfterRename ==
    /\ ret.op = "write"
    /\ ret.err
    /\ TargetRenames(ret.renames, log_file) # {}

\* C14: the write call that follows a write call that failed after the
\* policy had renamed the target, and that meets no I/O fault itself, puts
\* its bytes in a file at the target path, which the handle then refers to,
\* and leaves the renamed backup as it was.
C14_NextWriteReopens ==
    [][(/\ FailedAfterRename
        /\ calls' = calls + 1
        /\ ~ret'.err
        /\ status' = "running") =>
          /\ Exists(disk', log_file)
          /\ inner' = disk'[log_file]
          /\ data'[inner'] = ret'.buf
          /\ LET backup == rotLog[Len(rotLog)].ino
             IN  data'[backup] = data[backup]]_vars

\* C18: no call of evaluate fails to return: the loop of lines 175-177
\* always exits.
C18_EvaluateReturns == status # "hung"

\* A step that is a write call without I/O fault, of an opened sink with the
\* timed policy whose period is not empty, made at or after rollover_at and
\* at least one second after the last check, with the target existing.
DueWriteStep ==
    /\ TimedEvalStep
    /\ policy.duration > 0
    /\ Exists(disk, log_file)
    /\ clock >= policy.rollover_at
    /\ clock - policy.check_time >= Secs(1)
    /\ ~ret'.err

\* C19: such a write call rotates once: the file at the target path is
\* renamed, unchanged, to "<target>.<rollover_at - duration, formatted>"
\* with rollover_at as before the call, a file that had this name is
\* replaced, and the pending bytes are the content of a new file at the
\* target path.
C19_DeferredRotation ==
    [][DueWriteStep =>
          LET name == log_file \o Dot \o
                      FormatTime(DateTimeOf(policy.rollover_at - policy.duration,
                                            IF policy.utc THEN 0 ELSE policy.offset),
                                 policy.format)
              old == disk[log_file]
          IN  /\ ret'.rotated
              /\ ret'.renames = << <<log_file, name>> >>
              /\ Len(rotLog') = Len(rotLog) + 1
              /\ data'[old] = data[old]
              /\ Exists(disk, name) =>
                    /\ ret'.removes # <<>>
                    /\ Head(ret'.removes) = name
              /\ Exists(disk', name) => disk'[name] = old
              /\ policy.max_backup >= 1 => Exists(disk', name)
              /\ Exists(disk', log_file)
              /\ disk'[log_file] # old
              /\ inner' = disk'[log_file]
              /\ data'[inner'] = ret'.buf
              /\ ret'.n = Len(ret'.buf)]_vars

\* A write made a whole period after the boundary rotated the target to the
\* name of the period before the boundary, which is not the period of the
\* write, replacing the file of an earlier run that had this name.
C19_Witness ==
    /\ policy.kind = "time"
    /\ cfg.interval >= 1
    /\ policy.max_backup >= 1
    /\ ret.op = "write"
    /\ ret.rotated
    /\ ~ret.err
    /\ Len(rotLog) = 1
    /\ ret.removes = <<rotLog[1].name>>
    /\ Exists(disk, rotLog[1].name)
    /\ disk[rotLog[1].name] = rotLog[1].ino
    /\ rotLog[1].name #
          log_file \o Dot \o FormatTime(DateTimeOf(ret.at, 0), policy.format)
    /\ rotLog[1].name #
          log_file \o Dot \o
          FormatTime(DateTimeOf(ret.at - policy.duration, 0), policy.format)
    /\ data[inner] = ret.buf

-----------------------------------------------------------------------------
(* The sink with the size policy and a target named "app.log",             *)
(* "my.app.log" or "app", in an empty directory where the open of the      *)
(* target after a rotation can fail.                                       *)

\* "my.app.log"
MyAppLog == <<109, 121, 46, 97, 112, 112, 46, 108, 111, 103>>

\* "app"
App == <<97, 112, 112>>

TargetNames == {AppLog, MyAppLog, App}

InitNames ==
    /\ log_file \in TargetNames
    /\ inner = 0
    /\ \E max_file_size \in 1..MaxFileSize, max_backup \in 0..MaxBackup :
          /\ policy = SizeNew(max_file_size, max_backup)
          /\ cfg = [kind |-> "size", max_file_size |-> max_file_size,
                    max_backup |-> max_backup]
    /\ disk = <<>>
    /\ data = <<>>
    /\ clock = 0
    /\ tz = 0
    /\ ret = [op |-> "new"]
    /\ calls = 0
    /\ rotLog = <<>>
    /\ lastCheck = -1
    /\ breached = FALSE
    /\ removed = 0
    /\ advances = 0
    /\ status = "running"

NextNames ==
    \/ Open
    \/ \E len \in 0..MaxBuf, fault \in {"none", "open"} : Write(len, 0, 0, fault)
    \/ Flush

SpecNames == InitNames /\ [][NextNames]_vars

\* C15: a breaching write call whose target exists and has a final extension
\* that is not a number is a first rotation: the call of evaluate returns,
\* reports the rotation, and has renamed the target to "<target>.1".
C15_NonNumericIsFirstRotation ==
    [][(/\ BreachingStep
        /\ HasExtension(log_file)
        /\ ~IsNumeric(Extension(log_file))) =>
          /\ status' = "running"
          /\ ret'.rotated
          /\ ret'.renames = << <<log_file, BackupPath(1)>> >>
          /\ Exists(disk', BackupPath(1))
          /\ disk'[BackupPath(1)] = disk[log_file]]_vars

-----------------------------------------------------------------------------
(* The sink with the size policy in a directory that already holds the     *)
(* target "app.log", with content <<0>>, and any of the files              *)
(* "app.log.1" .. "app.log.<MaxBackup + 1>", file i with content <<-i>>.   *)

InitChain ==
    /\ log_file = AppLog
    /\ inner = 0
    /\ \E max_file_size \in 1..MaxFileSize, max_backup \in 0..MaxBackup :
          /\ policy = SizeNew(max_file_size, max_backup)
          /\ cfg = [kind |-> "size", max_file_size |-> max_file_size,
                    max_backup |-> max_backup]
    /\ \E present \in SUBSET (1..(MaxBackup + 1)) :
          disk = [q \in {AppLog} \cup
                        {AppLog \o Dot \o ToStr(i) : i \in present} |->
                     IF q = AppLog THEN 1
                     ELSE 1 + CHOOSE i \in present : q = AppLog \o Dot \o ToStr(i)]
    /\ data = [i \in 1..(MaxBackup + 2) |-> <<1 - i>>]
    /\ clock = 0
    /\ tz = 0
    /\ ret = [op |-> "new"]
    /\ calls = 0
    /\ rotLog = <<>>
    /\ lastCheck = -1
    /\ breached = FALSE
    /\ removed = 0
    /\ advances = 0
    /\ status = "running"

NextChain ==
    \/ Open
    \/ \E len \in 0..MaxBuf : Write(len, 0, 0, "none")
    \/ Flush

SpecChain == InitChain /\ [][NextChain]_vars

-----------------------------------------------------------------------------
(* Properties of the backup chain, checked under SpecChain. *)

\* The number of the backup a file was renamed to.
SuffixOf(p) == ParseU32(Extension(p))

\* C16: a call of evaluate returns, having nested at most max_backup + 1
\* calls of rotate, and having renamed no file to a suffix above max_backup
\* when max_backup >= 1.
C16_CascadeBounded ==
    ret.op = "write" =>
        /\ status = "running"
        /\ ret.depth <= policy.max_backup + 1
        /\ policy.max_backup >= 1 =>
              \A i \in 1..Len(ret.renames) :
                  SuffixOf(ret.renames[i][2]) <= policy.max_backup

\* Backups 1..i of the target all exist in directory d.
ChainTo(d, i) == \A j \in 1..i : Exists(d, BackupPath(j))

\* The number of the first backup missing in directory d.
FirstGap(d) ==
    CHOOSE g \in 1..(Cardinality(DOMAIN d) + 1) :
        /\ ~Exists(d, BackupPath(g))
        /\ ChainTo(d, g - 1)

\* File p of directory d is, unchanged, file q of the directory after the
\* step.
MovedTo(p, q) ==
    /\ Exists(disk', q)
    /\ disk'[q] = disk[p]
    /\ data'[disk[p]] = data[disk[p]]

\* C17: a write call that rotates, with max_backup = m >= 1, moves the
\* target to backup 1 and backup i to backup i + 1 for every i < m with
\* backups 1..i existing; it discards the file that was backup m when
\* backups 1..m all existed, and no other file; and what is beyond the first
\* gap of the chain, or beyond backup m, is as it was.
C17_ChainShiftsOneSlot ==
    [][(SizeWriteStep /\ ret'.rotated /\ policy.max_backup >= 1) =>
          LET m == policy.max_backup
              g == FirstGap(disk)
              last == IF g < m THEN g ELSE m
              kept == {disk'[q] : q \in DOMAIN disk'}
              lost == {disk[q] : q \in DOMAIN disk} \ kept
          IN  /\ MovedTo(log_file, BackupPath(1))
              /\ \A i \in 1..(m - 1) :
                    ChainTo(disk, i) => MovedTo(BackupPath(i), BackupPath(i + 1))
              /\ lost = IF ChainTo(disk, m) THEN {disk[BackupPath(m)]} ELSE {}
              /\ \A k \in (last + 1)..(Cardinality(DOMAIN disk) + 1) :
                    IF Exists(disk, BackupPath(k))
                    THEN MovedTo(BackupPath(k), BackupPath(k))
                    ELSE ~Exists(disk', BackupPath(k))]_vars

\* With max_backup >= 2 and backups 1 and 3 present but not backup 2, one
\* rotation has put the target in backup 1 and the old backup 1 in backup 2,
\* and has left backup 3 alone.
C17_Witness ==
    /\ policy.kind = "size"
    /\ policy.max_backup >= 2
    /\ Len(rotLog) = 1
    /\ ret.op = "write"
    /\ ret.rotated
    /\ Exists(disk, BackupPath(1))
    /\ Exists(disk, BackupPath(2))
    /\ Exists(disk, BackupPath(3))
    /\ disk[BackupPath(1)] = rotLog[1].ino
    /\ data[disk[BackupPath(2)]] = <<-1>>
    /\ data[disk[BackupPath(3)]] = <<-3>>

====
